---- MODULE Spec2Model ----
(***************************************************************************)
(* The bridging file server (fileServer.ts: class FileServer) and the      *)
(* document session controller / save reconciler (pptxEditorProvider.ts:   *)
(* class PptxEditorProvider) of the PPTX editor extension, as one state    *)
(* machine.  One step of the machine is one turn of the Node event loop:   *)
(* a handler runs from its start to its next suspension point, promise     *)
(* continuations (microtasks) included.                                    *)
(***************************************************************************)
EXTENDS Integers, Sequences, FiniteSets, TLC

(***************************************************************************)
(* Bounds of the model.                                                    *)
(***************************************************************************)
MaxSockets == 2      \* http.Server objects start() may create in one run
MaxPort == 2         \* the OS hands out ports 1..MaxPort
MaxStops == 2        \* stop() calls in one run
MaxReqs == 1         \* callback requests in flight at once
NChunks == 2         \* chunks of every document version

Sessions == {"s1", "s2", "s3"}      \* resolveCustomEditor invocations
SaveSessions == {"s1"}              \* those of them that SpecSave opens
Docs == {"a.pptx", "b.pptx", "c.pptx"}   \* document paths (uri.fsPath)
TokenIds == 1..(Cardinality(Sessions) + 1)   \* the last one is never issued
Sockets == 1..MaxSockets
Ports == 1..MaxPort

NoServer == 0        \* this.server === null
NoToken == 0
NoRet == -1          \* no value returned by start() (yet)
NoDoc == "nodoc"     \* servedFiles has no entry
NoHandler == "nohandler"   \* callbackHandlers has no entry
SaveIds == {1, 2}    \* saveDocument() calls in one run
Original == 0        \* version tag of the bytes on disk at start; save k fetches bytes k
Hole == -1           \* bytes of a file never written (a gap left by a write past the end)
NoInstance == 0      \* fileServerInstance === null
Providers == {"p1", "p2"}           \* PptxEditorProvider objects; activate() makes p1
OtherObjs == 2..Cardinality(Providers)   \* FileServer objects after the first (object 1)
NoRecord == [filePath |-> <<>>, mimeType |-> "none"]   \* no ServedFile

VARIABLES
    server,            \* FileServer.server: NoServer or the http.Server object
    port,              \* FileServer.port
    servedFiles,       \* FileServer.servedFiles: token -> document path
    callbackHandlers,  \* FileServer.callbackHandlers: token -> session closure
    sockSt,            \* each http.Server object's socket state
    sockPort,          \* the port the OS bound it to (0: none)
    sess,              \* each resolveCustomEditor invocation
    nextTok,           \* next fresh token of crypto.randomBytes(16)
    stops,             \* stop() calls made so far
    firstRet,           \* value of the first start() to complete since the last stop()
    stopTok,           \* tokens below it were issued before the last stop() of a server
    reqs,              \* POST /callback/{token} requests whose body is still arriving
    saves,             \* each saveDocument() call
    disk,              \* the file at each document path
    gets,              \* the latest 200 response of GET /file/{token} and its body
    fileServerInstance,  \* the module's fileServerInstance: NoInstance or a FileServer object
    fileServer,        \* each provider's this.fileServer (NoInstance: not constructed)
    others,            \* the FileServer objects made after the first one
    served,            \* ServedFile.filePath and .mimeType of each token, as text
    ev                 \* what the last step did (observation record)

saveVars == <<reqs, saves, disk, gets>>

hostVars == <<fileServerInstance, fileServer, others, served>>

vars == <<server, port, servedFiles, callbackHandlers, sockSt, sockPort,
          sess, nextTok, stops, firstRet, stopTok, reqs, saves, disk, gets,
          fileServerInstance, fileServer, others, served, ev>>

(***************************************************************************)
(* The state after activate(): the provider p1 is constructed and holds    *)
(* the FileServer object getFileServer() made for it (object 1, which the  *)
(* variables server .. callbackHandlers describe), with its fields as      *)
(* constructed.                                                            *)
(***************************************************************************)
NoSession == [pc |-> "Closed", doc |-> NoDoc, token |-> NoToken,
              sock |-> NoServer, ret |-> NoRet, urlPort |-> NoRet]

NoSave == [st |-> "none", sess |-> NoHandler, off |-> 0, linked |-> FALSE,
           note |-> "none", resp |-> 0]

\* no response body is being followed
NoGet == [st |-> "none", doc |-> NoDoc, snap |-> <<>>, body |-> <<>>]

Complete(v) == [i \in 1..NChunks |-> v]

Init ==
    /\ server = NoServer
    /\ port = 0
    /\ servedFiles = [t \in TokenIds |-> NoDoc]
    /\ callbackHandlers = [t \in TokenIds |-> NoHandler]
    /\ sockSt = [k \in Sockets |-> "unused"]
    /\ sockPort = [k \in Sockets |-> 0]
    /\ sess = [s \in Sessions |-> NoSession]
    /\ nextTok = 1
    /\ stops = 0
    /\ firstRet = NoRet
    /\ stopTok = 1
    /\ reqs = {}
    /\ saves = [k \in SaveIds |-> NoSave]
    /\ disk = [d \in Docs |-> [exists |-> TRUE, data |-> Complete(Original)]]
    /\ gets = NoGet
    /\ fileServerInstance = 1
    /\ fileServer = [p \in Providers |-> IF p = "p1" THEN 1 ELSE NoInstance]
    /\ others = [o \in OtherObjs |-> "none"]
    /\ served = [t \in TokenIds |-> NoRecord]
    /\ ev = [type |-> "init"]

Listening(k) == k # NoServer /\ sockSt[k] = "listening"
UsedPorts == {sockPort[k] : k \in {j \in Sockets : sockSt[j] = "listening"}}
FreshSockets == {k \in Sockets : sockSt[k] = "unused"}

\* The two states section 3 of the specification allows callers to see.
FullyStopped == server = NoServer /\ port = 0
FullyStarted == Listening(server) /\ port = sockPort[server] /\ port # 0

(***************************************************************************)
(* FileServer.registerFile, onCallback, unregisterFile: the map updates.   *)
(***************************************************************************)
\* a register that stores no record
registerFile_NoStore(sf, t, d) == sf

registerFile(sf, t, d) == [sf EXCEPT ![t] = d]

\* a bind that keeps the handler a token already has
onCallback_KeepsFirst(ch, t, s) == IF ch[t] # NoHandler THEN ch ELSE [ch EXCEPT ![t] = s]

onCallback(ch, t, s) == [ch EXCEPT ![t] = s]

\* a delete that empties the map
unregisterFile_Clear(m, t, none) == [u \in DOMAIN m |-> none]

unregisterFile(m, t, none) == [m EXCEPT ![t] = none]

(***************************************************************************)
(* resolveCustomEditor after `await this.fileServer.start()` has returned  *)
(* ret: registerFile, onCallback, generateDocumentKey (statSync may throw, *)
(* statOk = FALSE, and then onDidDispose is never installed), html,        *)
(* onDidDispose.  Runs in one turn: nothing between these lines suspends.  *)
(***************************************************************************)
Resume(s, d, ret, curPort, statOk) ==
    LET t == nextTok IN
    /\ servedFiles' = registerFile(servedFiles, t, d)
    /\ callbackHandlers' = onCallback(callbackHandlers, t, s)
    /\ nextTok' = nextTok + 1
    /\ sess' = [sess EXCEPT ![s] =
                   [pc |-> IF statOk THEN "Active" ELSE "Failed",
                    doc |-> d, token |-> t, sock |-> @.sock,
                    ret |-> ret, urlPort |-> curPort]]

\* the document each invocation is for (one editor per document)
DocOf(s) == IF s = "s1" THEN "a.pptx" ELSE IF s = "s2" THEN "b.pptx" ELSE "c.pptx"

(***************************************************************************)
(* FileServer.start, first branch: `if (this.server) return this.port`.    *)
(* The caller's continuation runs in the same turn.                        *)
(***************************************************************************)
startReturnValue == port

OpenStarted(s, statOk) ==
    /\ sess[s].pc = "Closed"
    /\ server # NoServer
    /\ Resume(s, DocOf(s), startReturnValue, port, statOk)
    /\ firstRet' = IF firstRet = NoRet THEN startReturnValue ELSE firstRet
    /\ ev' = [type |-> "startReturn", sess |-> s, ret |-> startReturnValue,
              prev |-> firstRet, bound |-> FALSE]
    /\ UNCHANGED <<server, port, sockSt, sockPort, stops, stopTok, saveVars, hostVars>>

(***************************************************************************)
(* FileServer.start, second branch: createServer + listen(0, '0.0.0.0').   *)
(* The promise stays pending until the 'listening' or the 'error' event.   *)
(***************************************************************************)
OpenCreate(s) ==
    /\ sess[s].pc = "Closed"
    /\ server = NoServer
    /\ \E k \in FreshSockets :
          /\ k = CHOOSE j \in FreshSockets : \A i \in FreshSockets : j <= i
          /\ server' = k
          /\ sockSt' = [sockSt EXCEPT ![k] = "pending"]
          /\ sess' = [sess EXCEPT ![s] = [@ EXCEPT !.pc = "Opening", !.doc = DocOf(s), !.sock = k]]
          /\ ev' = [type |-> "listen", sess |-> s, sock |-> k]
    /\ UNCHANGED <<port, servedFiles, callbackHandlers, sockPort, nextTok, stops, firstRet,
                   stopTok, saveVars, hostVars>>

Awaiting(k) == {s \in Sessions : sess[s].pc = "Opening" /\ sess[s].sock = k}

(***************************************************************************)
(* The 'listening' callback of socket k (start, lines 72-81).  It reads    *)
(* this.server, which stop() or a later start() may have replaced.         *)
(***************************************************************************)
BoundPort(k, p) == IF server = k THEN p ELSE sockPort[server]

ListenOk(k, p, statOk) ==
    /\ sockSt[k] = "pending"
    /\ p \in Ports \ UsedPorts
    /\ sockSt' = [sockSt EXCEPT ![k] = "listening"]
    /\ sockPort' = [sockPort EXCEPT ![k] = p]
    /\ UNCHANGED <<stopTok, saveVars, hostVars>>
    /\ \E s \in Awaiting(k) :
        IF server = NoServer
        THEN \* this.server!.address() throws: the promise never settles
             /\ ev' = [type |-> "listeningThrew", sess |-> s, sock |-> k]
             /\ UNCHANGED <<server, port, servedFiles, callbackHandlers, sess,
                            nextTok, stops, firstRet>>
        ELSE IF server = k \/ sockSt[server] = "listening"
        THEN \* address() is that of this.server: resolve(this.port)
             /\ port' = BoundPort(k, p)
             /\ Resume(s, sess[s].doc, BoundPort(k, p), BoundPort(k, p), statOk)
             /\ firstRet' = IF firstRet = NoRet THEN BoundPort(k, p) ELSE firstRet
             /\ ev' = [type |-> "startReturn", sess |-> s, ret |-> BoundPort(k, p),
                       prev |-> firstRet, bound |-> TRUE]
             /\ UNCHANGED <<server, stops>>
        ELSE \* address() is null: reject('Failed to get server port')
             /\ sess' = [sess EXCEPT ![s] = [@ EXCEPT !.pc = "Failed"]]
             /\ ev' = [type |-> "startRejected", sess |-> s, sock |-> k]
             /\ UNCHANGED <<server, port, servedFiles, callbackHandlers,
                            nextTok, stops, firstRet>>

\* an 'error' listener that also empties the registry
ListenError_Clears(k) ==
    /\ sockSt[k] = "pending"
    /\ sockSt' = [sockSt EXCEPT ![k] = "failed"]
    /\ servedFiles' = [t \in TokenIds |-> NoDoc]
    /\ callbackHandlers' = [t \in TokenIds |-> NoHandler]
    /\ \E s \in Awaiting(k) :
          /\ sess' = [sess EXCEPT ![s] = [@ EXCEPT !.pc = "Failed"]]
          /\ ev' = [type |-> "startRejected", sess |-> s, sock |-> k]
    /\ UNCHANGED <<server, port, sockPort, nextTok, stops, firstRet, stopTok, saveVars,
                   hostVars>>

(***************************************************************************)
(* The 'error' event of socket k before it listens (start, lines 83-86):   *)
(* reject(err).  this.server is left as it is.                             *)
(***************************************************************************)
ListenError(k) ==
    /\ sockSt[k] = "pending"
    /\ sockSt' = [sockSt EXCEPT ![k] = "failed"]
    /\ \E s \in Awaiting(k) :
          /\ sess' = [sess EXCEPT ![s] = [@ EXCEPT !.pc = "Failed"]]
          /\ ev' = [type |-> "startRejected", sess |-> s, sock |-> k]
    /\ UNCHANGED <<server, port, servedFiles, callbackHandlers, sockPort,
                   nextTok, stops, firstRet, stopTok, saveVars, hostVars>>

\* stop() without `this.callbackHandlers.clear()`
stop_KeepsHandlers ==
    /\ stops < MaxStops
    /\ stops' = stops + 1
    /\ firstRet' = NoRet
    /\ IF server # NoServer
       THEN /\ sockSt' = [sockSt EXCEPT ![server] =
                             IF @ = "listening" THEN "closed" ELSE @]
            /\ sockPort' = [sockPort EXCEPT ![server] = 0]
            /\ server' = NoServer
            /\ port' = 0
            /\ servedFiles' = [t \in TokenIds |-> NoDoc]
            /\ callbackHandlers' = callbackHandlers
            /\ stopTok' = nextTok
       ELSE UNCHANGED <<server, port, servedFiles, callbackHandlers, sockSt, sockPort,
                        stopTok>>
    /\ ev' = [type |-> "stop", was |-> server,
              wasSt |-> IF server = NoServer THEN "none" ELSE sockSt[server],
              files |-> Cardinality({t \in TokenIds : servedFiles[t] # NoDoc}),
              handlers |-> Cardinality({t \in TokenIds : callbackHandlers[t] # NoHandler})]
    /\ UNCHANGED <<sess, nextTok, saveVars, hostVars>>

\* stop() without `this.servedFiles.clear()`
stop_KeepsFiles ==
    /\ stops < MaxStops
    /\ stops' = stops + 1
    /\ firstRet' = NoRet
    /\ IF server # NoServer
       THEN /\ sockSt' = [sockSt EXCEPT ![server] =
                             IF @ = "listening" THEN "closed" ELSE @]
            /\ sockPort' = [sockPort EXCEPT ![server] = 0]
            /\ server' = NoServer
            /\ port' = 0
            /\ servedFiles' = servedFiles
            /\ callbackHandlers' = [t \in TokenIds |-> NoHandler]
            /\ stopTok' = nextTok
       ELSE UNCHANGED <<server, port, servedFiles, callbackHandlers, sockSt, sockPort,
                        stopTok>>
    /\ ev' = [type |-> "stop", was |-> server,
              wasSt |-> IF server = NoServer THEN "none" ELSE sockSt[server],
              files |-> Cardinality({t \in TokenIds : servedFiles[t] # NoDoc}),
              handlers |-> Cardinality({t \in TokenIds : callbackHandlers[t] # NoHandler})]
    /\ UNCHANGED <<sess, nextTok, saveVars, hostVars>>

(***************************************************************************)
(* FileServer.stop.                                                        *)
(***************************************************************************)
stop ==
    /\ stops < MaxStops
    /\ stops' = stops + 1
    /\ firstRet' = NoRet
    /\ IF server # NoServer
       THEN /\ sockSt' = [sockSt EXCEPT ![server] =
                             IF @ = "listening" THEN "closed" ELSE @]
            /\ sockPort' = [sockPort EXCEPT ![server] = 0]
            /\ server' = NoServer
            /\ port' = 0
            /\ servedFiles' = [t \in TokenIds |-> NoDoc]
            /\ callbackHandlers' = [t \in TokenIds |-> NoHandler]
            /\ stopTok' = nextTok
       ELSE UNCHANGED <<server, port, servedFiles, callbackHandlers, sockSt, sockPort,
                        stopTok>>
    /\ ev' = [type |-> "stop", was |-> server,
              wasSt |-> IF server = NoServer THEN "none" ELSE sockSt[server],
              files |-> Cardinality({t \in TokenIds : servedFiles[t] # NoDoc}),
              handlers |-> Cardinality({t \in TokenIds : callbackHandlers[t] # NoHandler})]
    /\ UNCHANGED <<sess, nextTok, saveVars, hostVars>>

\* a dispose listener that also shuts the shared server down
PanelClose_StopsServer(s) ==
    /\ sess[s].pc = "Active"
    /\ servedFiles' = [t \in TokenIds |-> NoDoc]
    /\ callbackHandlers' = [t \in TokenIds |-> NoHandler]
    /\ sockSt' = [k \in Sockets |-> IF k = server /\ sockSt[k] = "listening"
                                     THEN "closed" ELSE sockSt[k]]
    /\ server' = NoServer
    /\ port' = 0
    /\ sess' = [sess EXCEPT ![s] = [@ EXCEPT !.pc = "Disposed"]]
    /\ ev' = [type |-> "dispose", sess |-> s]
    /\ UNCHANGED <<sockPort, nextTok, stops, firstRet, stopTok, saveVars, hostVars>>

\* a dispose listener that abandons the session's saves in flight
PanelClose_CancelsSaves(s) ==
    /\ sess[s].pc = "Active"
    /\ servedFiles' = unregisterFile(servedFiles, sess[s].token, NoDoc)
    /\ callbackHandlers' = unregisterFile(callbackHandlers, sess[s].token, NoHandler)
    /\ sess' = [sess EXCEPT ![s] = [@ EXCEPT !.pc = "Disposed"]]
    /\ saves' = [k \in SaveIds |->
                    IF saves[k].sess = s /\ saves[k].st \in {"fetching", "writing"}
                    THEN [NoSave EXCEPT !.st = "done", !.sess = s, !.resp = saves[k].resp]
                    ELSE saves[k]]
    /\ ev' = [type |-> "dispose", sess |-> s]
    /\ UNCHANGED <<server, port, sockSt, sockPort, nextTok, stops, firstRet, stopTok,
                   reqs, disk, gets, hostVars>>

\* an unregister that deletes the file record and keeps the handler
PanelClose_KeepsHandler(s) ==
    /\ sess[s].pc = "Active"
    /\ servedFiles' = unregisterFile(servedFiles, sess[s].token, NoDoc)
    /\ callbackHandlers' = callbackHandlers
    /\ sess' = [sess EXCEPT ![s] = [@ EXCEPT !.pc = "Disposed"]]
    /\ ev' = [type |-> "dispose", sess |-> s]
    /\ UNCHANGED <<server, port, sockSt, sockPort, nextTok, stops, firstRet, stopTok,
                   saveVars, hostVars>>

\* a dispose listener installed before the await of start()
PanelClose_WhileOpening(s) ==
    /\ sess[s].pc \in {"Active", "Opening"}
    /\ servedFiles' = [t \in TokenIds |-> IF t = sess[s].token THEN NoDoc ELSE servedFiles[t]]
    /\ callbackHandlers' =
            [t \in TokenIds |-> IF t = sess[s].token THEN NoHandler ELSE callbackHandlers[t]]
    /\ sess' = [sess EXCEPT ![s] = [@ EXCEPT !.pc = "Disposed"]]
    /\ ev' = [type |-> "dispose", sess |-> s]
    /\ UNCHANGED <<server, port, sockSt, sockPort, nextTok, stops, firstRet, stopTok,
                   saveVars, hostVars>>

(***************************************************************************)
(* webviewPanel.onDidDispose: unregisterFile(token).                       *)
(***************************************************************************)
PanelClose(s) ==
    /\ sess[s].pc = "Active"
    /\ servedFiles' = unregisterFile(servedFiles, sess[s].token, NoDoc)
    /\ callbackHandlers' = unregisterFile(callbackHandlers, sess[s].token, NoHandler)
    /\ sess' = [sess EXCEPT ![s] = [@ EXCEPT !.pc = "Disposed"]]
    /\ ev' = [type |-> "dispose", sess |-> s]
    /\ UNCHANGED <<server, port, sockSt, sockPort, nextTok, stops, firstRet, stopTok,
                   saveVars, hostVars>>

srvVars == <<server, port, servedFiles, callbackHandlers, sockSt, sockPort,
             sess, nextTok, stops, firstRet, stopTok>>

AnyListening == \E k \in Sockets : sockSt[k] = "listening"

(***************************************************************************)
(* Callback bodies.  kind: "malformed" (JSON.parse throws), "null" (parses *)
(* to null), "obj" (an object with the status and url given).              *)
(***************************************************************************)
NoStatus == -1                       \* the object has no numeric status
NoUrl == "absent"                    \* the object has no url
BadUrl == "not a url"                \* a non-empty url http.get() refuses
GoodUrl == "http://ds/cache/out.pptx"
StatusVals == {0, 1, 2, 3, 4, 6, 7, NoStatus}
UrlVals == {NoUrl, "", BadUrl, GoodUrl}
Payloads ==
    {[kind |-> "malformed", status |-> NoStatus, url |-> NoUrl],
     [kind |-> "null", status |-> NoStatus, url |-> NoUrl]}
    \cup [kind : {"obj"}, status : StatusVals, url : UrlVals]

(***************************************************************************)
(* handleOnlyOfficeCallback, lines 130-133: the decision to save.          *)
(***************************************************************************)
ShouldSave_Status2Only(status, url) == status = 2 /\ url # NoUrl /\ url # ""

ShouldSave(status, url) == (status = 2 \/ status = 6) /\ url # NoUrl /\ url # ""

\* webviewPanel.webview.postMessage: delivered, or dropped by a closed panel
PostMessage(s, what) == IF sess[s].pc = "Disposed" THEN "dropped" ELSE what

(***************************************************************************)
(* handleCallback, lines 245-261: the status line of the response.  The    *)
(* handler is an async function: its call returns a promise at once and    *)
(* never throws into the try block, whether or not it started a save.      *)
(***************************************************************************)
\* a handler whose TypeError on a null body reaches the catch block
callbackCode_NullThrows(b, saving) ==
    IF b.kind \in {"malformed", "null"} THEN 500 ELSE 200

\* a response that is held back (0) until the save has settled
callbackCode_AwaitsSave(b, saving) ==
    IF b.kind = "malformed" THEN 500 ELSE IF saving THEN 0 ELSE 200

callbackCode(b, saving) == IF b.kind = "malformed" THEN 500 ELSE 200

\* a lookup that finds the closure of the session the token was issued to,
\* whether or not the token is still registered
handlerFor_Issued(t) ==
    IF \E s \in Sessions : sess[s].token = t
    THEN CHOOSE s \in Sessions : sess[s].token = t
    ELSE NoHandler

\* a lookup made when the request arrives: the closure the token was bound
\* to then, also when the binding has been deleted since
handlerFor_AtArrival(t) ==
    IF callbackHandlers[t] # NoHandler
    THEN callbackHandlers[t]
    ELSE IF \E s \in Sessions : sess[s].token = t /\ sess[s].pc \in {"Active", "Disposed"}
         THEN CHOOSE s \in Sessions : sess[s].token = t /\ sess[s].pc \in {"Active", "Disposed"}
         ELSE NoHandler

\* this.callbackHandlers.get(token)
handlerFor(t) == callbackHandlers[t]

FreeSaves == {k \in SaveIds : saves[k].st = "none"}
Started == {k \in SaveIds : saves[k].st # "none"}

(***************************************************************************)
(* handleRequest, POST /callback/{token}: handleCallback installs the      *)
(* 'data' and 'end' listeners; the body is still to come.                  *)
(***************************************************************************)
CallbackArrive(t) ==
    /\ AnyListening
    /\ t \notin reqs
    /\ Cardinality(reqs) < MaxReqs
    /\ reqs' = reqs \cup {t}
    /\ ev' = [type |-> "callbackArrived"]
    /\ UNCHANGED <<srvVars, hostVars, gets, saves, disk>>

(***************************************************************************)
(* handleCallback, the 'end' listener (lines 244-262), with the handler    *)
(* it calls: the closure of resolveCustomEditor (lines 82-84) and          *)
(* handleOnlyOfficeCallback up to its first await, which is saveDocument's *)
(* http.get (lines 155-158).  `data.status` on a body that parsed to null  *)
(* throws inside the async closure: its promise rejects and nothing        *)
(* handles the rejection (unhandled).                                      *)
(***************************************************************************)
handleCallback(t, b) ==
    LET h == IF b.kind = "malformed" THEN NoHandler ELSE handlerFor(t)
        run == h # NoHandler
        save == run /\ b.kind = "obj" /\ ShouldSave(b.status, b.url)
        fetch == save /\ b.url # BadUrl
        k == CHOOSE j \in FreeSaves : \A i \in FreeSaves : j <= i
    IN
    /\ t \in reqs
    /\ reqs' = reqs \ {t}
    /\ fetch => FreeSaves # {}
    /\ saves' = IF fetch
                THEN [saves EXCEPT ![k] = [NoSave EXCEPT !.st = "fetching", !.sess = h,
                                                         !.resp = callbackCode(b, fetch)]]
                ELSE saves
    /\ ev' = [type |-> "callback", body |-> b, bound |-> callbackHandlers[t] # NoHandler,
              code |-> callbackCode(b, fetch),
              error |-> IF callbackCode(b, fetch) = 500 THEN 1 ELSE 0,
              ran |-> run,
              unhandled |-> run /\ b.kind = "null",
              called |-> save,
              save |-> IF fetch THEN k ELSE 0,
              note |-> IF save /\ ~fetch THEN PostMessage(h, "fail") ELSE "none"]
    /\ UNCHANGED <<srvVars, hostVars, gets, disk>>

(***************************************************************************)
(* saveDocument (lines 155-179) and the rest of handleOnlyOfficeCallback   *)
(* (lines 134-147) that runs when its promise settles.  A save that has    *)
(* settled or hung keeps its session and the notification it made.         *)
(***************************************************************************)
Settle(k, st, what) ==
    [NoSave EXCEPT !.st = st, !.sess = saves[k].sess, !.resp = saves[k].resp,
                   !.note = PostMessage(saves[k].sess, what)]

\* a save that writes to the document of the first session, whoever called it
PathOf_First(k) == DocOf("s1")

PathOf(k) == DocOf(saves[k].sess)

\* http.get: 'error' on the request (line 177), or a status other than 200
\* (lines 159-162): reject, the file is not opened.
FetchFail(k, cause) ==
    /\ saves[k].st = "fetching"
    /\ saves' = [saves EXCEPT ![k] = Settle(k, "done", "fail")]
    /\ ev' = [type |-> "downloadFailed", save |-> k, cause |-> cause, wrote |-> FALSE]
    /\ UNCHANGED <<srvVars, hostVars, gets, reqs, disk>>

\* a saveDocument that waits until no other save is in flight
FetchOk_OneAtATime(k) ==
    /\ saves[k].st = "fetching"
    /\ \A j \in SaveIds \ {k} : saves[j].st \notin {"fetching", "writing", "unlinking"}
    /\ saves' = [saves EXCEPT ![k] = [@ EXCEPT !.st = "writing", !.linked = TRUE]]
    /\ disk' = [disk EXCEPT ![PathOf(k)] = [exists |-> TRUE, data |-> <<>>]]
    /\ ev' = [type |-> "opened", save |-> k]
    /\ UNCHANGED <<srvVars, hostVars, gets, reqs>>

\* status 200: fs.createWriteStream(path) opens the file with flag 'w'
\* (created or truncated to length 0), response.pipe(fileStream).
FetchOk(k) ==
    /\ saves[k].st = "fetching"
    /\ saves' = [saves EXCEPT ![k] = [@ EXCEPT !.st = "writing", !.linked = TRUE]]
    /\ disk' = [disk EXCEPT ![PathOf(k)] = [exists |-> TRUE, data |-> <<>>]]
    /\ ev' = [type |-> "opened", save |-> k]
    /\ UNCHANGED <<srvVars, hostVars, gets, reqs>>

\* status 200 but the open fails (EACCES, EISDIR, ...): fileStream 'error'
OpenError(k) ==
    /\ saves[k].st = "fetching"
    /\ saves' = [saves EXCEPT ![k] = Settle(k, "unlinking", "fail")]
    /\ ev' = [type |-> "writeError", save |-> k, wrote |-> FALSE]
    /\ UNCHANGED <<srvVars, hostVars, gets, reqs, disk>>

\* a write at the stream's own file position
Put(data, i, v) ==
    [j \in 1..(IF Len(data) > i THEN Len(data) ELSE i) |->
        IF j = i THEN v ELSE IF j <= Len(data) THEN data[j] ELSE Hole]

\* one chunk of the response is piped into the file
WriteChunk(k) ==
    /\ saves[k].st = "writing"
    /\ saves[k].off < NChunks
    /\ saves' = [saves EXCEPT ![k] = [@ EXCEPT !.off = @ + 1]]
    /\ disk' = IF saves[k].linked
               THEN [disk EXCEPT ![PathOf(k)] =
                        [@ EXCEPT !.data = Put(@, saves[k].off + 1, k)]]
               ELSE disk
    /\ ev' = [type |-> "chunk", save |-> k]
    /\ UNCHANGED <<srvVars, hostVars, gets, reqs>>

\* fileStream 'finish' (lines 167-171): resolve, then postMessage success
Finish(k) ==
    /\ saves[k].st = "writing"
    /\ saves[k].off = NChunks
    /\ saves' = [saves EXCEPT ![k] = Settle(k, "done", "ok")]
    /\ ev' = [type |-> "saved", save |-> k]
    /\ UNCHANGED <<srvVars, hostVars, gets, reqs, disk>>

\* fileStream 'error' while writing (lines 173-176): fs.unlink is issued,
\* reject(err) runs at once, the unlink completes in a later turn
WriteError(k) ==
    /\ saves[k].st = "writing"
    /\ saves' = [saves EXCEPT ![k] = Settle(k, "unlinking", "fail")]
    /\ ev' = [type |-> "writeError", save |-> k, wrote |-> TRUE]
    /\ UNCHANGED <<srvVars, hostVars, gets, reqs, disk>>

\* the response breaks off before its end: neither 'end' nor 'finish' nor a
\* request 'error' follows, the promise never settles
Abort(k) ==
    /\ saves[k].st = "writing"
    /\ saves[k].off < NChunks
    /\ saves' = [saves EXCEPT ![k] = [NoSave EXCEPT !.st = "hung", !.sess = saves[k].sess,
                                                     !.resp = saves[k].resp]]
    /\ ev' = [type |-> "downloadFailed", save |-> k, cause |-> "aborted", wrote |-> TRUE]
    /\ UNCHANGED <<srvVars, hostVars, gets, reqs, disk>>

\* the unlink of line 174 completes: the path is removed (its error, if any,
\* is ignored by the empty callback); writers keep their descriptors, and so
\* does a read stream, whose body is then that of a file no path names any
\* more ("orphan": not followed further)
Unlink(k, ok) ==
    /\ saves[k].st = "unlinking"
    /\ IF ok /\ disk[PathOf(k)].exists
       THEN /\ disk' = [disk EXCEPT ![PathOf(k)] = [exists |-> FALSE, data |-> <<>>]]
            /\ saves' = [j \in SaveIds |->
                           IF j = k THEN [saves[j] EXCEPT !.st = "done"]
                           ELSE IF saves[j].sess = saves[k].sess
                                THEN [saves[j] EXCEPT !.linked = FALSE]
                                ELSE saves[j]]
       ELSE /\ disk' = disk
            /\ saves' = [saves EXCEPT ![k] = [@ EXCEPT !.st = "done"]]
    /\ gets' = IF ok /\ gets.st = "reading" /\ gets.doc = PathOf(k)
                THEN [gets EXCEPT !.st = "orphan"]
                ELSE gets
    /\ ev' = [type |-> "unlinked", save |-> k, ok |-> ok]
    /\ UNCHANGED <<srvVars, hostVars, reqs>>

(***************************************************************************)
(* handleRequest, GET /file/{token}: serveFile.  The handler looks the     *)
(* token up, stats the file, creates the read stream and writes the status *)
(* line with Content-Length = stat.size; the stream opens the file and     *)
(* reads it in later turns.                                                *)
(***************************************************************************)
\* a lookup in a record of the tokens handed out that nothing deletes from
fileInfo_Stale(t) ==
    IF \E s \in Sessions : sess[s].token = t
    THEN DocOf(CHOOSE s \in Sessions : sess[s].token = t)
    ELSE NoDoc

\* this.servedFiles.get(token)
fileInfo(t) == servedFiles[t]

\* a serveFile that sends the 200 headers without the stat
serveFileCode_NoStat(t) == IF fileInfo(t) = NoDoc THEN 404 ELSE 200

serveFileCode(t) ==
    IF fileInfo(t) = NoDoc THEN 404
    ELSE IF disk[fileInfo(t)].exists THEN 200 ELSE 500

GetFile(t) ==
    /\ AnyListening
    /\ gets' = IF serveFileCode(t) = 200
                THEN [st |-> "opening", doc |-> fileInfo(t),
                      snap |-> disk[fileInfo(t)].data, body |-> <<>>]
                ELSE gets
    /\ ev' = [type |-> "getFile", token |-> t, code |-> serveFileCode(t),
              found |-> servedFiles[t] # NoDoc,
              len |-> IF serveFileCode(t) = 200 THEN Len(disk[fileInfo(t)].data) ELSE 0]
    /\ UNCHANGED <<srvVars, hostVars, reqs, saves, disk>>

\* the read stream opens the path: ENOENT gives its 'error' event, and with
\* the headers sent the response ends with the text 'Error reading file'
StreamOpen ==
    /\ gets.st = "opening"
    /\ gets' = [gets EXCEPT !.st = IF disk[gets.doc].exists THEN "reading" ELSE "error"]
    /\ ev' = [type |-> "getOpened"]
    /\ UNCHANGED <<srvVars, hostVars, reqs, saves, disk>>

\* the read stream reads the next chunk at its own position and pipes it to
\* the response, or finds the end of the file and ends the response
StreamRead ==
    /\ gets.st = "reading"
    /\ gets' = IF Len(gets.body) < Len(disk[gets.doc].data)
                THEN [gets EXCEPT !.body = Append(@, disk[gets.doc].data[Len(gets.body) + 1])]
                ELSE [gets EXCEPT !.st = "ended"]
    /\ ev' = [type |-> "getRead"]
    /\ UNCHANGED <<srvVars, hostVars, reqs, saves, disk>>

(***************************************************************************)
(* handleRequest: the routes.  A request url is a prefix and what follows  *)
(* it: "/file/" + token, "/callback/" + token, "/health" (+ nothing or     *)
(* more text), "/" (any other path).                                       *)
(***************************************************************************)
Methods == {"GET", "POST", "OPTIONS", "PUT"}
Urls ==
    [prefix : {"/file/", "/callback/"}, rest : TokenIds]
    \cup [prefix : {"/health"}, rest : {NoToken, 1}]
    \cup [prefix : {"/"}, rest : {NoToken}]

startsWith(u, pre) == u.prefix = pre

\* url === '/health' (line 186): the method is not looked at
IsHealth(m, u) == u = [prefix |-> "/health", rest |-> NoToken]

handleRequest(m, u) ==
    /\ AnyListening
    /\ IF m = "OPTIONS"
       THEN /\ ev' = [type |-> "request", method |-> m, url |-> u, code |-> 200,
                      text |-> ""]
            /\ UNCHANGED <<srvVars, saveVars, hostVars>>
       ELSE IF startsWith(u, "/file/") /\ m = "GET"
       THEN GetFile(u.rest)
       ELSE IF startsWith(u, "/callback/") /\ m = "POST"
       THEN CallbackArrive(u.rest)
       ELSE IF IsHealth(m, u)
       THEN /\ ev' = [type |-> "request", method |-> m, url |-> u, code |-> 200,
                      text |-> "health"]
            /\ UNCHANGED <<srvVars, saveVars, hostVars>>
       ELSE /\ ev' = [type |-> "request", method |-> m, url |-> u, code |-> 404,
                      text |-> "Not Found"]
            /\ UNCHANGED <<srvVars, saveVars, hostVars>>

(***************************************************************************)
(* getFileServer / disposeFileServer (lines 267-281) and the provider's    *)
(* constructor, which keeps what getFileServer() returned in               *)
(* this.fileServer for good.  Of an object made after the first one only   *)
(* this much is followed: "none" (not made), "stopped" (its this.server is *)
(* null), "started" (start() has set its this.server).                     *)
(***************************************************************************)
UnmadeObjs == {o \in OtherObjs : others[o] = "none"}

ProviderNew(p) ==
    /\ fileServer[p] = NoInstance
    /\ IF fileServerInstance # NoInstance
       THEN /\ fileServer' = [fileServer EXCEPT ![p] = fileServerInstance]
            /\ UNCHANGED <<fileServerInstance, others>>
       ELSE \E o \in UnmadeObjs :
               /\ \A i \in UnmadeObjs : o <= i
               /\ others' = [others EXCEPT ![o] = "stopped"]
               /\ fileServerInstance' = o
               /\ fileServer' = [fileServer EXCEPT ![p] = o]
    /\ ev' = [type |-> "getFileServer", provider |-> p, had |-> fileServerInstance]
    /\ UNCHANGED <<srvVars, saveVars, served>>

\* resolveCustomEditor of a provider that holds a later object: line 67,
\* this.fileServer.start(), sets that object's this.server
OpenOther(p) ==
    /\ fileServer[p] \in OtherObjs
    /\ others' = [others EXCEPT ![fileServer[p]] = "started"]
    /\ ev' = [type |-> "otherStart", provider |-> p, obj |-> fileServer[p]]
    /\ UNCHANGED <<srvVars, saveVars, fileServerInstance, fileServer, served>>

\* disposeFileServer: stop() of the instance, if there is one, and
\* fileServerInstance = null.  The disposal hooks of extension.ts (the
\* subscription's dispose, deactivate) are calls of it.
disposeFileServer ==
    /\ IF fileServerInstance = NoInstance
       THEN UNCHANGED <<srvVars, others>>
       ELSE IF fileServerInstance \in OtherObjs
       THEN /\ others' = [others EXCEPT ![fileServerInstance] = "stopped"]
            /\ UNCHANGED srvVars
       ELSE /\ stops' = stops + 1
            /\ firstRet' = NoRet
            /\ IF server # NoServer
               THEN /\ sockSt' = [sockSt EXCEPT ![server] =
                                     IF @ = "listening" THEN "closed" ELSE @]
                    /\ sockPort' = [sockPort EXCEPT ![server] = 0]
                    /\ server' = NoServer
                    /\ port' = 0
                    /\ servedFiles' = [t \in TokenIds |-> NoDoc]
                    /\ callbackHandlers' = [t \in TokenIds |-> NoHandler]
                    /\ stopTok' = nextTok
               ELSE UNCHANGED <<server, port, servedFiles, callbackHandlers, sockSt,
                                sockPort, stopTok>>
            /\ UNCHANGED <<sess, nextTok, others>>
    /\ fileServerInstance' = NoInstance
    /\ ev' = [type |-> "hook", had |-> fileServerInstance, was |-> server]
    /\ UNCHANGED <<saveVars, fileServer, served>>

(***************************************************************************)
(* crypto.randomBytes(16) (registerFile, line 107).  nextTok is the value  *)
(* its next call returns: a new one after every call, unless the source    *)
(* comes back to a value t it has returned before.  registerFile does not  *)
(* look whether the value is a key of servedFiles.                         *)
(***************************************************************************)
RandomRepeat(t) ==
    /\ t < nextTok
    /\ nextTok' = t
    /\ ev' = [type |-> "randomRepeat", token |-> t]
    /\ UNCHANGED <<server, port, servedFiles, callbackHandlers, sockSt, sockPort, sess,
                   stops, firstRet, stopTok, saveVars, hostVars>>

(***************************************************************************)
(* registerFile, lines 108-123: the MIME type of a path.  A path is the    *)
(* sequence of its characters.                                             *)
(***************************************************************************)
Stems ==
    {<<>>, <<"a">>, <<"d", "/">>, <<"d", ".", "x", "/", "a">>, <<"a", ".", "b">>}
Exts ==
    {<<>>, <<".">>, <<"p", "p", "t", "x">>,
     <<".", "p", "p", "t", "x">>, <<".", "P", "P", "T", "X">>, <<".", "P", "p", "t", "X">>,
     <<".", "p", "p", "t">>, <<".", "P", "P", "T">>, <<".", "p", "p">>,
     <<".", "p", "p", "t", "x", ".">>, <<".", "p", "p", "t", "x", "x">>,
     <<".", "d", "o", "c", "x">>, <<".", "D", "o", "c", "x">>, <<".", "d", "o", "c">>,
     <<".", "x", "l", "s", "x">>, <<".", "X", "L", "S", "X">>, <<".", "x", "l", "s">>}
Paths == {st \o e : st \in Stems, e \in Exts}

LastIndexOf(q, c) ==
    IF \E i \in 1..Len(q) : q[i] = c
    THEN CHOOSE i \in 1..Len(q) : q[i] = c /\ \A j \in (i + 1)..Len(q) : q[j] # c
    ELSE 0

\* path.basename
basename(q) == SubSeq(q, LastIndexOf(q, "/") + 1, Len(q))

\* path.extname: from the last dot of the base name, unless the base name
\* has none, starts with it, or is ".."
extname(q) ==
    LET b == basename(q)
        d == LastIndexOf(b, ".")
    IN  IF d = 0 \/ d = 1 \/ b = <<".", ".">> THEN <<>> ELSE SubSeq(b, d, Len(b))

UpperCase == {"P", "T", "X", "D", "L", "S"}
LowerOf(c) ==
    IF c = "P" THEN "p" ELSE IF c = "T" THEN "t" ELSE IF c = "X" THEN "x"
    ELSE IF c = "D" THEN "d" ELSE IF c = "L" THEN "l" ELSE IF c = "S" THEN "s" ELSE c

\* a lower-casing that leaves the text as it is
toLowerCase_Same(q) == q

toLowerCase(q) == [i \in 1..Len(q) |-> IF q[i] \in UpperCase THEN LowerOf(q[i]) ELSE q[i]]

PptxType == "application/vnd.openxmlformats-officedocument.presentationml.presentation"
PptType == "application/vnd.ms-powerpoint"
DocxType == "application/vnd.openxmlformats-officedocument.wordprocessingml.document"
XlsxType == "application/vnd.openxmlformats-officedocument.spreadsheetml.sheet"
OctetType == "application/octet-stream"

\* the object literal of lines 111-116, "undefined" for a key it has not
mimeTypes(ext) ==
    IF ext = <<".", "p", "p", "t", "x">> THEN PptxType
    ELSE IF ext = <<".", "p", "p", "t">> THEN PptType
    ELSE IF ext = <<".", "d", "o", "c", "x">> THEN DocxType
    ELSE IF ext = <<".", "x", "l", "s", "x">> THEN XlsxType
    ELSE "undefined"

\* mimeTypes[ext] || 'application/octet-stream'
mimeTypeOf(q) ==
    LET ext == toLowerCase(extname(q))
    IN  IF mimeTypes(ext) = "undefined" THEN OctetType ELSE mimeTypes(ext)

MimeTokens == 1..2

\* registerFile for a document at path q
RegisterPath(q) ==
    /\ nextTok \in MimeTokens
    /\ served' = [served EXCEPT ![nextTok] = [filePath |-> q, mimeType |-> mimeTypeOf(q)]]
    /\ nextTok' = nextTok + 1
    /\ ev' = [type |-> "registerFile", token |-> nextTok, path |-> q]
    /\ UNCHANGED <<server, port, servedFiles, callbackHandlers, sockSt, sockPort, sess,
                   stops, firstRet, stopTok, saveVars, fileServerInstance, fileServer,
                   others>>

\* serveFile, lines 201-217: the status line and the headers of the response
ServeHeaders(t) ==
    /\ ev' = IF served[t] = NoRecord
             THEN [type |-> "headers", token |-> t, code |-> 404,
                   ctype |-> "text/plain", filename |-> <<>>]
             ELSE [type |-> "headers", token |-> t, code |-> 200,
                   ctype |-> served[t].mimeType,
                   filename |-> basename(served[t].filePath)]
    /\ UNCHANGED <<srvVars, saveVars, hostVars>>

(***************************************************************************)
(* The panel of an invocation that failed closes.  resolveCustomEditor     *)
(* threw before line 105 (start() rejected at line 67, or statSync threw   *)
(* in generateDocumentKey at line 94), so the panel has no dispose         *)
(* listener: nothing of the FileServer is touched.                         *)
(***************************************************************************)
PanelCloseFailed(s) ==
    /\ sess[s].pc = "Failed"
    /\ sess' = [sess EXCEPT ![s] = [@ EXCEPT !.pc = "Disposed"]]
    /\ ev' = [type |-> "disposeFailed", sess |-> s, token |-> sess[s].token]
    /\ UNCHANGED <<server, port, servedFiles, callbackHandlers, sockSt, sockPort,
                   nextTok, stops, firstRet, stopTok, saveVars, hostVars>>

(***************************************************************************)
(* POST /callback/{token} from the Document Server of an open editor: the  *)
(* request arrives while its token is bound.                               *)
(***************************************************************************)
CallbackArriveBound(t) ==
    /\ callbackHandlers[t] # NoHandler
    /\ CallbackArrive(t)

ServerNext ==
    \/ \E s \in Sessions, ok \in BOOLEAN : OpenStarted(s, ok)
    \/ \E s \in Sessions : OpenCreate(s)
    \/ \E k \in Sockets, p \in Ports, ok \in BOOLEAN : ListenOk(k, p, ok)
    \/ \E k \in Sockets : ListenError(k)
    \/ stop
    \/ \E s \in Sessions : PanelClose(s)

RequestNext ==
    \/ \E t \in TokenIds : CallbackArrive(t)
    \/ \E t \in TokenIds, b \in Payloads : handleCallback(t, b)
    \/ \E t \in TokenIds : GetFile(t)

SaveNext ==
    \/ \E k \in SaveIds, c \in {"connect", "status"} : FetchFail(k, c)
    \/ \E k \in SaveIds : FetchOk(k)
    \/ \E k \in SaveIds : OpenError(k)
    \/ \E k \in SaveIds : WriteChunk(k)
    \/ \E k \in SaveIds : Finish(k)
    \/ \E k \in SaveIds : WriteError(k)
    \/ \E k \in SaveIds : Abort(k)
    \/ \E k \in SaveIds, ok \in BOOLEAN : Unlink(k, ok)

StreamNext == StreamOpen \/ StreamRead

Next == ServerNext \/ RequestNext \/ SaveNext \/ StreamNext

Spec == Init /\ [][Next]_vars

(***************************************************************************)
(* SpecStart: the server's life cycle with three sessions: start() called  *)
(* while the server is stopped, while a bind is pending and while it       *)
(* listens, stop() at any time, the panels closing.                        *)
(***************************************************************************)
SpecStart == Init /\ [][ServerNext]_vars

(***************************************************************************)
(* SpecServer: the server's life cycle (start, stop, two sessions opening  *)
(* and closing) with GET /file requests for their tokens and for a token   *)
(* never issued.                                                           *)
(***************************************************************************)
ServerSessions == {"s1", "s2"}
ServerTokens == 1..(Cardinality(ServerSessions) + 1)

ServerGetNext ==
    \/ \E s \in ServerSessions, ok \in BOOLEAN : OpenStarted(s, ok)
    \/ \E s \in ServerSessions : OpenCreate(s)
    \/ \E k \in Sockets, p \in Ports, ok \in BOOLEAN : ListenOk(k, p, ok)
    \/ \E k \in Sockets : ListenError(k)
    \/ stop
    \/ \E s \in ServerSessions : PanelClose(s)
    \/ \E t \in ServerTokens : GetFile(t)

SpecServer == Init /\ [][ServerGetNext]_vars

(***************************************************************************)
(* SpecSave: a session on a server that is started once and not stopped,   *)
(* the callbacks for its token (while it is bound and after the panel      *)
(* closed) with every body, and every step of the saves these callbacks    *)
(* start.                                                                  *)
(***************************************************************************)
SaveTokens == 1..Cardinality(SaveSessions)

SessionSaveNext ==
    \/ \E s \in SaveSessions : OpenCreate(s)
    \/ \E k \in Sockets, p \in Ports : ListenOk(k, p, TRUE)
    \/ \E s \in SaveSessions : PanelClose(s)
    \/ \E t \in SaveTokens : CallbackArrive(t)
    \/ \E t \in SaveTokens, b \in Payloads : handleCallback(t, b)
    \/ SaveNext

SpecSave == Init /\ [][SessionSaveNext]_vars

(***************************************************************************)
(* SpecServe: a session on a server that is started once and not stopped,  *)
(* force-save callbacks for its token, the saves they start, and GET /file *)
(* requests with the streaming of their bodies.                            *)
(***************************************************************************)
ServeSessions == {"s1"}
ServeTokens == 1..Cardinality(ServeSessions)
ForceSave == [kind |-> "obj", status |-> 6, url |-> GoodUrl]

ServeNext ==
    \/ \E s \in ServeSessions : OpenCreate(s)
    \/ \E k \in Sockets, p \in Ports : ListenOk(k, p, TRUE)
    \/ \E t \in ServeTokens : CallbackArrive(t)
    \/ \E t \in ServeTokens : handleCallback(t, ForceSave)
    \/ \E t \in ServeTokens : GetFile(t)
    \/ StreamNext
    \/ SaveNext

SpecServe == Init /\ [][ServeNext]_vars

(***************************************************************************)
(* SpecCallback: a session on a server that is started and stopped, and    *)
(* the callbacks for its token and for a token never issued, with every    *)
(* body; the saves they start are not followed.                            *)
(***************************************************************************)
CallbackSessions == {"s1"}
CallbackTokens == 1..(Cardinality(CallbackSessions) + 1)

CallbackNext ==
    \/ \E s \in CallbackSessions : OpenCreate(s)
    \/ \E k \in Sockets, p \in Ports : ListenOk(k, p, TRUE)
    \/ \E s \in CallbackSessions : PanelClose(s)
    \/ stop
    \/ \E t \in CallbackTokens : CallbackArrive(t)
    \/ \E t \in CallbackTokens, b \in Payloads : handleCallback(t, b)

SpecCallback == Init /\ [][CallbackNext]_vars

(***************************************************************************)
(* SpecStall: two sessions on a server that is started once and not        *)
(* stopped, the force-save callbacks for their tokens, the saves they      *)
(* start (without their write errors) and GET /file requests.  A save may  *)
(* stay in its download for ever: no step of it is ever forced.  The one   *)
(* bind of this specification is given the port MaxPort.                   *)
(***************************************************************************)
StallSessions == {"s1", "s2"}
StallTokens == 1..Cardinality(StallSessions)

StallNext ==
    \/ \E s \in StallSessions : OpenStarted(s, TRUE)
    \/ \E s \in StallSessions : OpenCreate(s)
    \/ \E k \in Sockets : ListenOk(k, MaxPort, TRUE)
    \/ \E s \in StallSessions : PanelClose(s)
    \/ \E t \in StallTokens : CallbackArrive(t)
    \/ \E t \in StallTokens : handleCallback(t, ForceSave)
    \/ \E t \in StallTokens : GetFile(t)
    \/ \E k \in SaveIds : FetchFail(k, "status")
    \/ \E k \in SaveIds : FetchOk(k)
    \/ \E k \in SaveIds : WriteChunk(k)
    \/ \E k \in SaveIds : Finish(k)

SpecStall == Init /\ [][StallNext]_vars

(***************************************************************************)
(* SpecRoute: a session on a server that is started once and not stopped,  *)
(* and requests with every method and url.                                 *)
(***************************************************************************)
RouteSessions == {"s1"}

RouteNext ==
    \/ \E s \in RouteSessions : OpenCreate(s)
    \/ \E k \in Sockets, p \in Ports : ListenOk(k, p, TRUE)
    \/ \E s \in RouteSessions : PanelClose(s)
    \/ \E m \in Methods, u \in Urls : handleRequest(m, u)
    \/ \E t \in TokenIds : handleCallback(t, ForceSave)

SpecRoute == Init /\ [][RouteNext]_vars

(***************************************************************************)
(* SpecSingleton: the provider of activate() with one session, a second    *)
(* provider constructed at any time, the opens through it, and             *)
(* disposeFileServer() at any time.                                        *)
(***************************************************************************)
SingletonSessions == {"s1"}

SingletonNext ==
    \/ \E s \in SingletonSessions : OpenCreate(s)
    \/ \E k \in Sockets, p \in Ports : ListenOk(k, p, TRUE)
    \/ \E s \in SingletonSessions : PanelClose(s)
    \/ \E p \in Providers : ProviderNew(p)
    \/ \E p \in Providers : OpenOther(p)
    \/ disposeFileServer

SpecSingleton == Init /\ [][SingletonNext]_vars

(***************************************************************************)
(* SpecLife: two sessions of the provider of activate(), with the bind of  *)
(* start() succeeding or failing, the panels closing, GET /file requests   *)
(* and the disposal hook at any time.                                      *)
(***************************************************************************)
LifeSessions == {"s1", "s2"}
LifeTokens == 1..(Cardinality(LifeSessions) + 1)

LifeNext ==
    \/ \E s \in LifeSessions, ok \in BOOLEAN : OpenStarted(s, ok)
    \/ \E s \in LifeSessions : OpenCreate(s)
    \/ \E k \in Sockets, p \in Ports, ok \in BOOLEAN : ListenOk(k, p, ok)
    \/ \E k \in Sockets : ListenError(k)
    \/ \E s \in LifeSessions : PanelClose(s)
    \/ \E t \in LifeTokens : GetFile(t)
    \/ disposeFileServer

SpecLife == Init /\ [][LifeNext]_vars

(***************************************************************************)
(* SpecToken: two sessions on a server that is started once and not        *)
(* stopped, a random source that may repeat a value, and force-save        *)
(* callbacks; the saves they start are not followed.                       *)
(***************************************************************************)
TokenSessions == {"s1", "s2"}
DrawnTokens == 1..Cardinality(TokenSessions)

TokenNext ==
    \/ \E s \in TokenSessions : OpenStarted(s, TRUE)
    \/ \E s \in TokenSessions : OpenCreate(s)
    \/ \E k \in Sockets, p \in Ports : ListenOk(k, p, TRUE)
    \/ \E s \in TokenSessions : PanelClose(s)
    \/ \E t \in DrawnTokens : RandomRepeat(t)
    \/ \E t \in DrawnTokens : CallbackArrive(t)
    \/ \E t \in DrawnTokens : handleCallback(t, ForceSave)

SpecToken == Init /\ [][TokenNext]_vars

(***************************************************************************)
(* SpecMime: registerFile for documents at the paths of Paths, and the     *)
(* headers of GET /file/{token}.                                           *)
(***************************************************************************)
MimeNext ==
    \/ \E q \in Paths : RegisterPath(q)
    \/ \E t \in MimeTokens : ServeHeaders(t)

SpecMime == Init /\ [][MimeNext]_vars

(***************************************************************************)
(* SpecAbandon: two sessions on a server that is started once and not      *)
(* stopped, whose opens may fail at the bind or at generateDocumentKey,    *)
(* the panels of working and of failed sessions closing, and GET /file     *)
(* requests.                                                               *)
(***************************************************************************)
AbandonSessions == {"s1", "s2"}
AbandonTokens == 1..Cardinality(AbandonSessions)

AbandonNext ==
    \/ \E s \in AbandonSessions, ok \in BOOLEAN : OpenStarted(s, ok)
    \/ \E s \in AbandonSessions : OpenCreate(s)
    \/ \E k \in Sockets, p \in Ports, ok \in BOOLEAN : ListenOk(k, p, ok)
    \/ \E k \in Sockets : ListenError(k)
    \/ \E s \in AbandonSessions : PanelClose(s)
    \/ \E s \in AbandonSessions : PanelCloseFailed(s)
    \/ \E t \in AbandonTokens : GetFile(t)

SpecAbandon == Init /\ [][AbandonNext]_vars

(***************************************************************************)
(* SpecLate: a session on a server that is started and stopped, and        *)
(* callbacks that arrive while their token is bound and whose body ends    *)
(* at any later time, with every body; the saves they start are not        *)
(* followed.                                                               *)
(***************************************************************************)
LateSessions == {"s1"}
LateTokens == 1..Cardinality(LateSessions)

LateNext ==
    \/ \E s \in LateSessions : OpenCreate(s)
    \/ \E k \in Sockets, p \in Ports : ListenOk(k, p, TRUE)
    \/ \E s \in LateSessions : PanelClose(s)
    \/ stop
    \/ \E t \in LateTokens : CallbackArriveBound(t)
    \/ \E t \in LateTokens, b \in Payloads : handleCallback(t, b)

SpecLate == Init /\ [][LateNext]_vars

(***************************************************************************)
(* Properties.                                                             *)
(***************************************************************************)
Ready(b) == b.kind = "obj" /\ b.status \in {2, 6} /\ b.url \notin {NoUrl, ""}
InFlight == {k \in SaveIds : saves[k].st \in {"fetching", "writing", "unlinking"}}

\* C1: a callback delivered to a bound handler starts a save (saveDocument and
\* its http.get are called) exactly when its status is 2 or 6 and it carries a
\* non-empty url; for every other payload no save is started, and the step
\* leaves every file as it is; a file only ever changes in a step of a save
\* that such a callback started.
C1_SaveIffReady ==
    [][/\ (ev'.type = "callback" /\ reqs' # reqs /\ ev'.bound /\ ev'.body.kind # "malformed") =>
                /\ ev'.called <=> Ready(ev'.body)
                /\ (ev'.save # 0) <=> (Ready(ev'.body) /\ ev'.body.url = GoodUrl)
                /\ (ev'.save # 0) <=> (saves' # saves)
                /\ disk' = disk
       /\ disk' # disk => InFlight # {}
      ]_vars

C1_Witness ==
    /\ ev.type = "callback"
    /\ ev.body.status = 6
    /\ ev.save # 0
    /\ saves[ev.save].st = "fetching"

\* C2: a ready callback with a valid url for a bound token starts exactly one
\* fetch-and-write cycle and is answered 200 {"error":0}; when a cycle
\* finishes successfully the file at the document's path holds exactly the
\* bytes that cycle fetched.
C2_OneCycleExactBytes ==
    [][/\ (ev'.type = "callback" /\ ev'.bound /\ Ready(ev'.body)
             /\ ev'.body.url = GoodUrl) =>
                /\ Cardinality(Started') = Cardinality(Started) + 1
                /\ ev'.code = 200 /\ ev'.error = 0
       /\ ev'.type = "saved" =>
                disk'[PathOf(ev'.save)] = [exists |-> TRUE, data |-> Complete(ev'.save)]
      ]_vars

\* C3: in every reachable state every document file exists and holds one
\* complete version: the original or the bytes of one download.
C3_OldOrNewComplete ==
    \A d \in Docs :
        /\ disk[d].exists
        /\ \E v \in {Original} \cup SaveIds : disk[d].data = Complete(v)

\* C4: when a write error occurs in the middle of a save, then once the
\* failure is surfaced the failure notification has been made and the path
\* holds no file or content this save has not touched.
C4_WriteErrorLeavesNoPartial ==
    (ev.type = "writeError" /\ ev.wrote) =>
        /\ saves[ev.save].note # "none"
        /\ ~disk[PathOf(ev.save)].exists

\* C5: when the download of a save fails (connection error, status other
\* than 200, response breaking off) the save has not touched the file, the
\* UI surface is sent a failure notification and no new fetch is started.
C5_DownloadFailureLeavesFile ==
    [][ev'.type = "downloadFailed" =>
            /\ ~ev'.wrote
            /\ disk' = disk
            /\ saves'[ev'.save].note \in {"fail", "dropped"}
            /\ Started' = Started
      ]_vars

\* C6: once a start() call has completed with port p and stop() has not been
\* called since, no later start() call binds a socket and every later
\* start() call returns p.
C6_StartIdempotent ==
    [][firstRet # NoRet =>
            /\ ev'.type # "listen"
            /\ (ev'.type = "startReturn" /\ ~ev'.bound) => ev'.ret = firstRet
      ]_vars

\* C7: whenever a start() call returns or a request is handled, the server
\* is fully stopped (no server object, port 0) or fully started (listening,
\* port equal to the bound nonzero port).
C7_NoPartialState ==
    ev.type \in {"startReturn", "getFile"} => (FullyStopped \/ FullyStarted)

\* C8: every start() call, also one made while the first call's bind is
\* pending, returns a bound, nonzero port.
C8_ConcurrentStartsGetPort ==
    \A s \in Sessions : sess[s].ret # NoRet => sess[s].ret \in Ports

\* C9: stop() on a server object closes its socket, empties servedFiles and
\* callbackHandlers and resets the port to 0; stop() without a server object
\* changes nothing.
C9_StopClearsOrNoOp ==
    [][ev'.type = "stop" =>
            IF server # NoServer
            THEN /\ sockSt'[server] # "listening"
                 /\ server' = NoServer
                 /\ port' = 0
                 /\ \A t \in TokenIds :
                        servedFiles'[t] = NoDoc /\ callbackHandlers'[t] = NoHandler
            ELSE UNCHANGED <<server, port, servedFiles, callbackHandlers, sockSt,
                             sockPort, sess, nextTok, saveVars>>
      ]_vars

C9_Witness ==
    /\ ev.type = "stop"
    /\ ev.wasSt = "listening"
    /\ ev.files > 0
    /\ ev.handlers > 0

\* C10: every token registered before a stop() has no file record and no
\* callback binding afterwards and gets 404 on GET /file/{token}; a start()
\* after a stop() that binds leaves the server listening on the port the OS
\* gave the new socket.
C10_RestartClearsRegistry ==
    /\ \A t \in TokenIds : t < stopTok =>
            /\ servedFiles[t] = NoDoc
            /\ callbackHandlers[t] = NoHandler
            /\ serveFileCode(t) = 404
    /\ (ev.type = "getFile" /\ ev.token < stopTok) => ev.code = 404
    /\ (ev.type = "startReturn" /\ ev.bound /\ stops > 0) =>
            /\ FullyStarted
            /\ sess[ev.sess].ret = port

C10_Witness ==
    /\ ev.type = "getFile"
    /\ ev.token < stopTok
    /\ ev.code = 404
    /\ stops > 0
    /\ FullyStarted

\* C11: unregisterFile(token) removes the file record and the callback
\* binding of that token and leaves those of every other token as they are;
\* for a token with neither it leaves both maps as they are; the step that
\* calls it changes neither the server nor the port.
C11_UnregisterFrame ==
    [][/\ \A t \in TokenIds :
            LET sf == unregisterFile(servedFiles, t, NoDoc)
                ch == unregisterFile(callbackHandlers, t, NoHandler)
            IN  /\ sf[t] = NoDoc /\ ch[t] = NoHandler
                /\ \A u \in TokenIds \ {t} :
                        sf[u] = servedFiles[u] /\ ch[u] = callbackHandlers[u]
                /\ (servedFiles[t] = NoDoc /\ callbackHandlers[t] = NoHandler) =>
                        (sf = servedFiles /\ ch = callbackHandlers)
       /\ ev'.type = "dispose" =>
            LET t == sess[ev'.sess].token IN
            /\ servedFiles'[t] = NoDoc /\ callbackHandlers'[t] = NoHandler
            /\ \A u \in TokenIds \ {t} :
                    servedFiles'[u] = servedFiles[u]
                    /\ callbackHandlers'[u] = callbackHandlers[u]
            /\ (servedFiles[t] = NoDoc /\ callbackHandlers[t] = NoHandler) =>
                    UNCHANGED <<servedFiles, callbackHandlers>>
            /\ UNCHANGED <<server, port>>
      ]_vars

C11_Witness ==
    /\ ev.type = "dispose"
    /\ sess[ev.sess].token < stopTok
    /\ \E u \in TokenIds : servedFiles[u] # NoDoc /\ callbackHandlers[u] # NoHandler

\* C12: every GET /file/{token} for a registered token whose file exists is
\* answered 200 with Content-Length equal to the file's size, and the body
\* it is sent is the content the file had when the request was handled.
C12_ServesFileBytes ==
    /\ (ev.type = "getFile" /\ ev.found /\ disk[servedFiles[ev.token]].exists) =>
            /\ ev.code = 200
            /\ ev.len = Len(disk[servedFiles[ev.token]].data)
    /\ gets.st # "error"
    /\ gets.st = "ended" => gets.body = gets.snap

\* C13: GET /file/{token} for a token that has no file record (never issued,
\* unregistered when its panel closed, cleared by stop()) is answered 404 and
\* starts no file stream.
C13_UnregisteredGets404 ==
    [][(ev'.type = "getFile" /\ servedFiles[ev'.token] = NoDoc) =>
            /\ ev'.code = 404
            /\ ev'.len = 0
            /\ gets' = gets
      ]_vars

C13_Witness ==
    /\ ev.type = "getFile"
    /\ ev.code = 404
    /\ \E s \in Sessions : sess[s].token = ev.token /\ sess[s].pc = "Disposed"
    /\ ev.token >= stopTok

\* C14: a callback whose body has been received is answered 500 {"error":1}
\* exactly when the body does not parse, and then no handler runs and no
\* save starts; every body that parses is answered 200 {"error":0}, for
\* every token, status and url.
C14_ErrorOnlyOnParseFailure ==
    ev.type = "callback" =>
        /\ (ev.code = 500 /\ ev.error = 1) <=> ev.body.kind = "malformed"
        /\ ev.body.kind = "malformed" => (~ev.ran /\ ~ev.called /\ ev.save = 0)
        /\ ev.body.kind # "malformed" => (ev.code = 200 /\ ev.error = 0)

C14_Witness ==
    /\ ev.type = "callback"
    /\ ev.body.kind = "null"
    /\ ev.bound
    /\ ev.code = 200

\* C15: a callback with a parseable body for a token that has no handler
\* (never registered, unregistered by a panel close, cleared by stop()) is
\* answered 200 {"error":0}; no handler runs, no save is started and no file
\* changes, whatever status and url the body carries.
C15_UnboundTokenNoSave ==
    [][(ev'.type = "callback" /\ ~ev'.bound /\ ev'.body.kind # "malformed") =>
            /\ ev'.code = 200 /\ ev'.error = 0
            /\ ~ev'.ran /\ ~ev'.called /\ ev'.save = 0
            /\ UNCHANGED <<saves, disk>>
      ]_vars

C15_Witness ==
    /\ ev.type = "callback"
    /\ ~ev.bound
    /\ Ready(ev.body) /\ ev.body.url = GoodUrl
    /\ ev.error = 0
    /\ stops > 0
    /\ \E s \in Sessions : sess[s].pc = "Active" /\ sess[s].token < stopTok

\* C16: the response to a callback with a parseable body for a bound token is
\* 200 {"error":0} and is written in the turn that starts the save, while
\* the download has not yet answered; every save, also one that later
\* fails or never settles, belongs to a request that was answered 200.
C16_ResponseBeforeSave ==
    /\ (ev.type = "callback" /\ ev.bound /\ ev.body.kind # "malformed") =>
            /\ ev.code = 200 /\ ev.error = 0
            /\ ev.save # 0 => saves[ev.save].st = "fetching"
    /\ \A k \in SaveIds : saves[k].st # "none" => saves[k].resp = 200

C16_Witness ==
    \E k \in SaveIds : saves[k].st = "hung" /\ saves[k].resp = 200

\* C17: the close of an Active session's panel removes that session's file
\* record and callback binding and changes neither the server object, its
\* socket, the port, any other session nor any other token's record or
\* binding.
C17_PanelCloseFrame ==
    [][ev'.type = "dispose" =>
            LET s == ev'.sess
                t == sess[s].token
            IN  /\ sess[s].pc = "Active"
                /\ servedFiles'[t] = NoDoc /\ callbackHandlers'[t] = NoHandler
                /\ UNCHANGED <<server, port, sockSt, sockPort>>
                /\ \A o \in Sessions \ {s} : sess'[o] = sess[o]
                /\ \A u \in TokenIds \ {t} :
                        /\ servedFiles'[u] = servedFiles[u]
                        /\ callbackHandlers'[u] = callbackHandlers[u]
      ]_vars

C17_Witness ==
    /\ ev.type = "dispose"
    /\ FullyStarted
    /\ \E o \in Sessions \ {ev.sess} :
            /\ sess[o].pc = "Active"
            /\ servedFiles[sess[o].token] = sess[o].doc
            /\ callbackHandlers[sess[o].token] = o

\* C18: the close of a panel leaves the session's saves, the requests and the
\* files as they are; a save of a closed session can take every step a save
\* can take, and when it settles (finish, download failure, write error) its
\* notification is dropped.
C18_CloseDoesNotCancelSave ==
    [][/\ ev'.type = "dispose" => UNCHANGED <<saves, disk, reqs>>
       /\ \A k \in SaveIds :
            (saves[k].sess # NoHandler /\ sess[saves[k].sess].pc = "Disposed") =>
                /\ saves[k].st = "fetching" =>
                        /\ ENABLED FetchOk(k)
                        /\ ENABLED FetchFail(k, "status")
                /\ (saves[k].st = "writing" /\ saves[k].off < NChunks) =>
                        ENABLED WriteChunk(k)
                /\ (saves[k].st = "writing" /\ saves[k].off = NChunks) =>
                        ENABLED Finish(k)
                /\ (ev'.type = "saved" /\ ev'.save = k) =>
                        /\ saves'[k].st = "done"
                        /\ saves'[k].note = "dropped"
                /\ (ev'.type \in {"writeError", "downloadFailed"} /\ ev'.save = k
                        /\ saves'[k].st # "hung") =>
                        saves'[k].note = "dropped"
      ]_vars

C18_Witness ==
    /\ ev.type = "saved"
    /\ saves[ev.save].note = "dropped"
    /\ disk[PathOf(ev.save)] = [exists |-> TRUE, data |-> Complete(ev.save)]

\* C20: no callback ends as an unhandled rejection, and every failure of a
\* save (download failure, write failure) ends as a notification.
C20_NoUncaughtFailure ==
    /\ ev.type = "callback" => ~ev.unhandled
    /\ ev.type \in {"downloadFailed", "writeError"} => saves[ev.save].note # "none"

\* C19: while a save of one session stays in its download, every other
\* session can be opened or closed, a GET for its registered token is
\* answered 200, a callback for its token is answered, and each of its saves
\* can take its next step up to its finish.
Stalled(k) == saves[k].st = "fetching"

C19_StalledSaveBlocksNobody ==
    \A k \in SaveIds : Stalled(k) =>
        \A o \in StallSessions \ {saves[k].sess} :
            /\ sess[o].pc = "Closed" => ENABLED (OpenStarted(o, TRUE) \/ OpenCreate(o))
            /\ sess[o].pc = "Active" =>
                    /\ ENABLED PanelClose(o)
                    /\ ENABLED GetFile(sess[o].token)
                    /\ disk[sess[o].doc].exists => serveFileCode(sess[o].token) = 200
                    /\ (sess[o].token \in reqs /\ FreeSaves # {}) =>
                            ENABLED handleCallback(sess[o].token, ForceSave)
            /\ \A j \in SaveIds : saves[j].sess = o =>
                    /\ saves[j].st = "fetching" => ENABLED FetchOk(j)
                    /\ (saves[j].st = "writing" /\ saves[j].off < NChunks) =>
                            ENABLED WriteChunk(j)
                    /\ (saves[j].st = "writing" /\ saves[j].off = NChunks) =>
                            ENABLED Finish(j)

C19_Witness ==
    /\ \E k \in SaveIds : Stalled(k) /\ saves[k].sess = "s1"
    /\ ev.type = "saved"
    /\ saves[ev.save].sess = "s2"
    /\ saves[ev.save].note = "ok"
    /\ disk[DocOf("s2")] = [exists |-> TRUE, data |-> Complete(ev.save)]

\* C21: a request that is not OPTIONS, not GET /file/{token}, not POST
\* /callback/{token} and not GET /health is answered 404 'Not Found' and
\* changes neither the registry, the handlers nor any file.
C21_OtherRequests404 ==
    [][(/\ ev'.type = "request"
        /\ ev'.method # "OPTIONS"
        /\ ~(ev'.method = "GET" /\ ev'.url = [prefix |-> "/health", rest |-> NoToken])) =>
            /\ ev'.code = 404 /\ ev'.text = "Not Found"
            /\ UNCHANGED <<servedFiles, callbackHandlers, disk, saves>>
      ]_vars

\* C22: at every moment at most one FileServer object is started and at most
\* one is held by the providers whose sessions use it.
StartedObjs ==
    (IF server # NoServer THEN {1} ELSE {})
    \cup {o \in OtherObjs : others[o] = "started"}
HeldObjs == {fileServer[p] : p \in Providers} \ {NoInstance}

C22_OneServerInstance ==
    /\ Cardinality(StartedObjs) <= 1
    /\ Cardinality(HeldObjs) <= 1

\* C23: a run of the disposal hook leaves the instance's server stopped (no
\* server object, port 0, no file record, no callback binding) and no
\* instance; a run without an instance changes nothing; while there is no
\* instance and no server object, no socket of the server is listening.
C23_HookStopsServer ==
    [][/\ ev'.type = "hook" =>
            IF fileServerInstance = NoInstance
            THEN UNCHANGED <<srvVars, saveVars, hostVars>>
            ELSE /\ fileServerInstance' = NoInstance
                 /\ server' = NoServer /\ port' = 0
                 /\ \A t \in TokenIds :
                        servedFiles'[t] = NoDoc /\ callbackHandlers'[t] = NoHandler
       /\ (fileServerInstance' = NoInstance /\ server' = NoServer) =>
            \A k \in Sockets : sockSt'[k] # "listening"
      ]_vars

\* C24 as stated: every Active session has its token in servedFiles and in
\* callbackHandlers, also after a stop() or a restart of the server.
C24_ActiveAlwaysRegistered ==
    \A s \in Sessions : sess[s].pc = "Active" =>
        /\ servedFiles[sess[s].token] = sess[s].doc
        /\ callbackHandlers[sess[s].token] = s

\* C24: every Active session whose token was registered since the last
\* stop() has its token in servedFiles and in callbackHandlers, also after
\* other sessions close; a stop() removes the tokens of the Active sessions
\* as well and a restart does not bring them back.
C24_ActiveRegisteredSinceStop ==
    \A s \in Sessions : sess[s].pc = "Active" =>
        IF sess[s].token >= stopTok
        THEN /\ servedFiles[sess[s].token] = sess[s].doc
             /\ callbackHandlers[sess[s].token] = s
        ELSE /\ servedFiles[sess[s].token] = NoDoc
             /\ callbackHandlers[sess[s].token] = NoHandler

C24_Witness ==
    /\ FullyStarted
    /\ stops > 0
    /\ sess["s1"].pc = "Active" /\ sess["s1"].token < stopTok
    /\ sess["s2"].pc = "Active" /\ sess["s2"].token >= stopTok
    /\ servedFiles[sess["s2"].token] = "b.pptx"

\* C25: the token a register yields is not a key of servedFiles at the time
\* of the call, and the register replaces no other session's file record.
C25_TokenNotRegistered ==
    [][ev'.type = "startReturn" =>
            LET t == sess'[ev'.sess].token IN
            /\ servedFiles[t] = NoDoc
            /\ \A o \in Sessions \ {ev'.sess} :
                    (sess[o].pc = "Active" /\ servedFiles[sess[o].token] = sess[o].doc) =>
                        servedFiles'[sess[o].token] = sess[o].doc
      ]_vars

\* C27: a bind for a token puts the new handler in the place of the one the
\* token had; a callback for a bound token invokes the handler bound at
\* that moment and no other, once (it starts one save, that handler's); a
\* callback for a token without a handler invokes none.
C27_LastBoundHandlerOnly ==
    [][/\ ev'.type = "startReturn" =>
            callbackHandlers'[sess'[ev'.sess].token] = ev'.sess
       /\ ev'.type = "callback" =>
            \A t \in reqs \ reqs' :
                IF callbackHandlers[t] = NoHandler
                THEN ~ev'.ran /\ saves' = saves
                ELSE /\ ev'.ran
                     /\ ev'.save # 0
                     /\ saves'[ev'.save].sess = callbackHandlers[t]
                     /\ \A j \in SaveIds \ {ev'.save} : saves'[j] = saves[j]
      ]_vars

C27_Witness ==
    /\ ev.type = "callback"
    /\ ev.ran
    /\ saves[ev.save].sess = "s2"
    /\ saves[ev.save].st = "fetching"
    /\ sess["s1"].pc = "Active" /\ sess["s2"].pc = "Active"
    /\ sess["s1"].token = sess["s2"].token
    /\ callbackHandlers[sess["s1"].token] = "s2"
    /\ \A j \in SaveIds : saves[j].sess # "s1"

\* C26: register stores the mapped MIME type for a path whose extension is,
\* whatever the case of its letters, .pptx, .ppt, .docx or .xlsx, and
\* application/octet-stream for every other path; GET /file/{token} reports
\* the stored type as Content-Type.
CaseFold ==
    {<<"P", "p">>, <<"T", "t">>, <<"X", "x">>, <<"D", "d">>, <<"L", "l">>, <<"S", "s">>}

EndsWithExt(q, e) ==
    /\ Len(q) > Len(e)
    /\ \A i \in 1..Len(e) :
            LET c == q[Len(q) - Len(e) + i] IN c = e[i] \/ <<c, e[i]>> \in CaseFold
    /\ q[Len(q) - Len(e)] # "/"

KnownTypes ==
    {<<<<".", "p", "p", "t", "x">>, PptxType>>, <<<<".", "p", "p", "t">>, PptType>>,
     <<<<".", "d", "o", "c", "x">>, DocxType>>, <<<<".", "x", "l", "s", "x">>, XlsxType>>}

C26_MimeTypeByExtension ==
    [][/\ ev'.type = "registerFile" =>
            LET q == ev'.path
                r == served'[ev'.token]
            IN  /\ r.filePath = q
                /\ \A k \in KnownTypes : EndsWithExt(q, k[1]) => r.mimeType = k[2]
                /\ (\A k \in KnownTypes : ~EndsWithExt(q, k[1])) => r.mimeType = OctetType
       /\ ev'.type = "headers" =>
            IF served[ev'.token] = NoRecord
            THEN ev'.code = 404
            ELSE ev'.code = 200 /\ ev'.ctype = served[ev'.token].mimeType
      ]_vars

C26_Witness ==
    /\ ev.type = "headers"
    /\ ev.code = 200
    /\ ev.ctype = PptxType
    /\ served[ev.token].filePath = <<"d", ".", "x", "/", "a", ".", "P", "p", "t", "X">>
    /\ \E t \in MimeTokens :
            /\ served[t].filePath = <<"d", "/", ".", "p", "p", "t", "x">>
            /\ served[t].mimeType = OctetType

\* C28: a session's state changes only along Closed, Opening, Active (or
\* Failed), Disposed; it gets its token only in the step in which its
\* start() returns, together with its file record and its handler; a
\* handler is bound only to a token that has a file record; an Active
\* session has a token; a panel close unregisters only a token that was
\* registered; a GET finds a record only for a token a session has
\* registered.
PcOrder ==
    {<<"Closed", "Opening">>, <<"Closed", "Active">>, <<"Closed", "Failed">>,
     <<"Opening", "Active">>, <<"Opening", "Failed">>, <<"Active", "Disposed">>}

C28_SessionOrder ==
    [][/\ \A s \in Sessions :
            /\ sess'[s].pc # sess[s].pc => <<sess[s].pc, sess'[s].pc>> \in PcOrder
            /\ sess'[s].pc = "Active" => sess'[s].token # NoToken
            /\ sess'[s].token # sess[s].token =>
                    /\ sess[s].token = NoToken
                    /\ ev'.type = "startReturn" /\ ev'.sess = s
                    /\ sess'[s].ret = ev'.ret
                    /\ servedFiles'[sess'[s].token] = sess'[s].doc
                    /\ callbackHandlers'[sess'[s].token] = s
       /\ \A t \in TokenIds :
            (callbackHandlers'[t] # NoHandler /\ callbackHandlers'[t] # callbackHandlers[t]) =>
                servedFiles'[t] # NoDoc
       /\ ev'.type = "dispose" =>
            /\ sess[ev'.sess].pc = "Active"
            /\ sess[ev'.sess].token # NoToken
            /\ sess[ev'.sess].token < nextTok
       /\ (ev'.type = "getFile" /\ ev'.found) =>
            \E s \in Sessions : sess[s].token = ev'.token /\ sess[s].ret # NoRet
      ]_vars

C28_Witness ==
    /\ ev.type = "dispose"
    /\ sess[ev.sess].ret \in Ports
    /\ servedFiles[sess[ev.sess].token] = NoDoc
    /\ \E o \in Sessions : sess[o].pc = "Opening"

\* C29: when start() rejects, the session that awaits it fails without a
\* token, no file record and no binding is made, and the records, the
\* bindings and the sessions of all others stay as they are.
C29_BindFailureFailsOnlyOpener ==
    [][ev'.type = "startRejected" =>
            /\ sess[ev'.sess].pc = "Opening"
            /\ sess'[ev'.sess].pc = "Failed"
            /\ sess'[ev'.sess].token = NoToken
            /\ UNCHANGED <<servedFiles, callbackHandlers, nextTok>>
            /\ \A o \in Sessions \ {ev'.sess} : sess'[o] = sess[o]
      ]_vars

C29_Witness ==
    /\ ev.type = "startRejected"
    /\ sockSt[ev.sock] = "failed"
    /\ sess[ev.sess].pc = "Failed"
    /\ \E o \in Sessions \ {ev.sess} :
            /\ sess[o].pc = "Active"
            /\ servedFiles[sess[o].token] = sess[o].doc
            /\ callbackHandlers[sess[o].token] = o

\* C30: after a start() has failed the server is fully stopped: no server
\* object, port 0.
C30_FailedStartLeavesStopped ==
    ev.type = "startRejected" => FullyStopped

\* C31: a GET /file/{token} for a registered token whose file cannot be
\* stat'ed is answered 500 and starts no stream; a stream whose open fails
\* after the 200 headers ends the response; in both cases the server, the
\* registry, the sessions and the files stay as they are and every later GET
\* is handled, with 200 for a registered token whose file is there.
C31_ReadFailureContained ==
    [][/\ (ev'.type = "getFile" /\ ev'.found /\ ~disk[servedFiles[ev'.token]].exists) =>
            /\ ev'.code = 500
            /\ gets' = gets
            /\ UNCHANGED <<srvVars, disk, saves, reqs>>
       /\ (ev'.type = "getOpened" /\ ~disk[gets.doc].exists) =>
            /\ gets'.st = "error"
            /\ UNCHANGED <<srvVars, disk, saves, reqs>>
       /\ (gets'.st = "error" \/ (ev'.type = "getFile" /\ ev'.code = 500)) =>
            /\ AnyListening'
            /\ \A t \in TokenIds :
                    (servedFiles'[t] # NoDoc /\ disk'[servedFiles'[t]].exists) =>
                        serveFileCode(t)' = 200
      ]_vars

C31_Witness ==
    /\ gets.st = "error"
    /\ ev.type = "getFile"
    /\ ev.code = 500
    /\ FullyStarted
    /\ servedFiles[ev.token] = "a.pptx"
    /\ ENABLED GetFile(ev.token)

\* C32: the step in which a save's download ends (finish, download failure,
\* write error) makes that save's one notification, sent or dropped by a
\* closed panel: success exactly when the file at the document's path holds
\* the bytes the save fetched, failure otherwise; a callback that calls no
\* saveDocument makes no notification.
C32_OneNotificationPerSave ==
    [][/\ ev'.type \in {"saved", "downloadFailed", "writeError"} =>
            /\ saves[ev'.save].note = "none"
            /\ saves'[ev'.save].note # "none"
            /\ saves'[ev'.save].note = "ok" =>
                    disk'[PathOf(ev'.save)] = [exists |-> TRUE, data |-> Complete(ev'.save)]
            /\ ev'.type # "saved" => saves'[ev'.save].note \in {"fail", "dropped"}
            /\ ev'.type = "saved" => saves'[ev'.save].note \in {"ok", "dropped"}
       /\ (ev'.type = "callback" /\ ~ev'.called) => ev'.note = "none"
      ]_vars

\* C33: a callback for a token invokes the handler of the session that
\* holds this token and no other, and changes no record and no binding; a
\* step of a save changes only the file of its session's document and no
\* record or binding; the open and the close of a session change the record
\* and the binding of that session's token only.
SaveSteps == {"opened", "chunk", "saved", "downloadFailed", "writeError", "unlinked"}

C33_OwnTokenOnly ==
    [][/\ ev'.type = "callback" =>
            /\ UNCHANGED <<servedFiles, callbackHandlers, disk>>
            /\ \A t \in reqs \ reqs' :
                    ev'.save # 0 =>
                        /\ sess[saves'[ev'.save].sess].token = t
                        /\ \A j \in SaveIds \ {ev'.save} : saves'[j] = saves[j]
       /\ ev'.type \in SaveSteps =>
            /\ UNCHANGED <<servedFiles, callbackHandlers>>
            /\ \A d \in Docs \ {sess[saves[ev'.save].sess].doc} : disk'[d] = disk[d]
       /\ ev'.type = "listen" => UNCHANGED <<servedFiles, callbackHandlers, disk>>
       /\ ev'.type = "startReturn" =>
            /\ disk' = disk
            /\ \A u \in TokenIds \ {sess'[ev'.sess].token} :
                    servedFiles'[u] = servedFiles[u] /\ callbackHandlers'[u] = callbackHandlers[u]
       /\ ev'.type = "dispose" =>
            /\ disk' = disk
            /\ \A u \in TokenIds \ {sess[ev'.sess].token} :
                    servedFiles'[u] = servedFiles[u] /\ callbackHandlers'[u] = callbackHandlers[u]
      ]_vars

C33_Witness ==
    /\ ev.type = "dispose"
    /\ ev.sess = "s2"
    /\ \E k \in SaveIds :
            /\ saves[k].sess = "s2"
            /\ disk["b.pptx"] = [exists |-> TRUE, data |-> Complete(k)]
    /\ disk["a.pptx"] = [exists |-> TRUE, data |-> Complete(Original)]
    /\ sess["s1"].pc = "Active"
    /\ servedFiles[sess["s1"].token] = "a.pptx"
    /\ callbackHandlers[sess["s1"].token] = "s1"

\* C34: the port in the URLs a session was given by register is the port the
\* server was bound to and listening on when register ran, never 0.
C34_UrlsCarryBoundPort ==
    [][ev'.type = "startReturn" =>
            /\ sess'[ev'.sess].urlPort \in Ports
            /\ \E k \in Sockets :
                    sockSt'[k] = "listening" /\ sockPort'[k] = sess'[ev'.sess].urlPort
      ]_vars

\* C35: in every reachable state every token that has a callback binding
\* has a file record.
C35_BindingsWithinRecords ==
    \A t \in TokenIds : callbackHandlers[t] # NoHandler => servedFiles[t] # NoDoc

C35_Witness ==
    /\ stops > 0
    /\ \E t \in TokenIds : callbackHandlers[t] # NoHandler /\ servedFiles[t] # NoDoc
    /\ \E s \in Sessions :
            /\ sess[s].pc = "Disposed"
            /\ sess[s].token >= stopTok
            /\ callbackHandlers[sess[s].token] = NoHandler

\* C36: no token stays registered for a session that has ended: once the panel
\* of a session is closed, the token that session was given has neither a file
\* record nor a callback binding, also when the open failed after registerFile
\* (statSync threw in generateDocumentKey).
C36_EndedSessionUnregistered ==
    \A s \in Sessions :
        (sess[s].pc = "Disposed" /\ sess[s].token # NoToken) =>
            /\ servedFiles[sess[s].token] = NoDoc
            /\ callbackHandlers[sess[s].token] = NoHandler

\* C37: at any moment at most one save is writing to a given document path:
\* no two saveDocument calls hold a write stream on the same file at once.
C37_OneWriterPerPath ==
    \A d \in Docs :
        Cardinality({k \in SaveIds : saves[k].st = "writing" /\ PathOf(k) = d}) <= 1

\* C38: the handler of a callback is looked up when the body has been fully
\* received, not when the request arrives: the handler runs exactly when the
\* body parses and the token is bound at that moment.  When the token was
\* unregistered or the server stopped between arrival and end, no handler
\* runs, no save is started and the request is still answered 200
\* {"error":0}; the arrival itself runs nothing.
C38_LookupAtEnd ==
    [][/\ \A t \in TokenIds :
            (ev'.type = "callback" /\ t \in reqs /\ t \notin reqs') =>
                /\ ev'.ran = (ev'.body.kind # "malformed" /\ callbackHandlers[t] # NoHandler)
                /\ (callbackHandlers[t] = NoHandler /\ ev'.body.kind # "malformed") =>
                        /\ ~ev'.called /\ ev'.save = 0 /\ ev'.note = "none"
                        /\ ev'.code = 200 /\ ev'.error = 0
                        /\ saves' = saves
       /\ ev'.type = "callbackArrived" => saves' = saves /\ disk' = disk
      ]_vars

\* a save-ready callback that arrived while its token was bound ends after a
\* panel close or a stop() removed the binding, and is answered {"error":0}
C38_Witness ==
    /\ ev.type = "callback"
    /\ ~ev.bound /\ ~ev.ran
    /\ Ready(ev.body) /\ ev.body.url = GoodUrl
    /\ ev.code = 200
    /\ \E s \in Sessions : sess[s].pc = "Disposed" /\ sess[s].token # NoToken
    /\ stops = 0

\* C39: every call of start() settles, for every interleaving with other
\* start() calls and with stop(): a session that is Opening still has the
\* event that resolves or rejects its start() ahead of it (the bind of its
\* socket is pending), so no session stays Opening for ever.
C39_OpeningCanSettle ==
    \A s \in Sessions :
        sess[s].pc = "Opening" => sockSt[sess[s].sock] = "pending"

====
